---------------------------- MODULE Spec2Model ----------------------------
(***************************************************************************)
(* A model of the resume formatter service (src/app.py): the POST /upload  *)
(* handler, the document loader, the response sanitizer, the renderer and  *)
(* the zip aggregator, with the uploads/ and output/ directories shared by *)
(* the requests the threaded development server runs side by side.         *)
(*                                                                         *)
(* Text (file names, model responses) is a sequence of characters, each a  *)
(* string, so that the regular expression, strip(), json.loads and        *)
(* os.path.splitext are computed on characters as the code computes them.  *)
(***************************************************************************)
EXTENDS Integers, Sequences, FiniteSets, TLC

(***************************************************************************)
(* Bounds of the model.                                                    *)
(***************************************************************************)
\* Files in one request's "resume" field.
MaxFiles == 2
\* Files uploaded in one behaviour, over all its requests.
MaxUploads == 3
\* Pieces concatenated into a model response in the sanitizer's specification.
MaxPieces == 4

\* The requests of one behaviour: two, so that one may overlap or follow the
\* other.
Requests == {1, 2}

(***************************************************************************)
(* Characters and text helpers.                                            *)
(***************************************************************************)
QUOTE == "\""
\* The backtick, which a TLA+ string cannot hold.
BT == "BT"
Fence == <<BT, BT, BT>>
JsonTag == <<"j", "s", "o", "n">>
\* Whitespace removed by str.strip() and skipped by the JSON decoder.
WS == {" ", "\n"}
\* Characters json.loads (strict) rejects inside a string literal.
ControlChars == {"\n"}
Digits == {"1"}

\* Whether text p occurs in s at position k.
StartsWithAt(s, p, k) ==
    /\ k >= 1
    /\ k + Len(p) - 1 <= Len(s)
    /\ \A n \in 1..Len(p) : s[k + n - 1] = p[n]

\* p in s, for two Python strings.
IsSubstring(p, s) == \E k \in 1..(Len(s) + 1) : StartsWithAt(s, p, k)

(***************************************************************************)
(* re.sub of the fence pattern (three backticks, then optionally json) by  *)
(* the empty string: one left-to-right pass; at a fence the optional group *)
(* takes "json" when it follows.                                           *)
(***************************************************************************)
\* The pattern without its optional group: only the three backticks go.
RECURSIVE SubFromPlain(_, _)
SubFromPlain(s, k) ==
    IF k > Len(s) THEN << >>
    ELSE IF StartsWithAt(s, Fence, k) THEN SubFromPlain(s, k + 3)
    ELSE <<s[k]>> \o SubFromPlain(s, k + 1)

ReSubFencesPlain(s) == SubFromPlain(s, 1)

RECURSIVE SubFrom(_, _)
SubFrom(s, k) ==
    IF k > Len(s) THEN << >>
    ELSE IF StartsWithAt(s, Fence, k)
         THEN IF StartsWithAt(s, JsonTag, k + 3)
              THEN SubFrom(s, k + 7)
              ELSE SubFrom(s, k + 3)
         ELSE <<s[k]>> \o SubFrom(s, k + 1)

ReSubFences(s) == SubFrom(s, 1)

\* str.strip()
RECURSIVE LStrip(_)
LStrip(s) == IF s # << >> /\ Head(s) \in WS THEN LStrip(Tail(s)) ELSE s

RECURSIVE RStrip(_)
RStrip(s) ==
    IF s # << >> /\ s[Len(s)] \in WS THEN RStrip(SubSeq(s, 1, Len(s) - 1)) ELSE s

Strip(s) == RStrip(LStrip(s))

(***************************************************************************)
(* json.loads on the model's alphabet.  A value is <<tag, payload>>:       *)
(*   <<"object", [key -> value]>>   <<"array", <<value, ...>> >>           *)
(*   <<"string", characters>>       <<"number", characters>>               *)
(* A scan result is <<ok, value, next position>>.  The alphabet has no     *)
(* backslash and none of the letters of true / false / null / NaN, so      *)
(* escapes and those literals cannot occur.                                *)
(***************************************************************************)
Fail == <<FALSE, <<"none", << >> >>, 0>>

RECURSIVE SkipWs(_, _)
SkipWs(s, k) == IF k <= Len(s) /\ s[k] \in WS THEN SkipWs(s, k + 1) ELSE k

\* py_scanstring: s[k] is the opening quote.
RECURSIVE ScanStringBody(_, _, _)
ScanStringBody(s, k, from) ==
    IF k > Len(s) THEN Fail
    ELSE IF s[k] = QUOTE THEN <<TRUE, <<"string", SubSeq(s, from, k - 1)>>, k + 1>>
    ELSE IF s[k] \in ControlChars THEN Fail
    ELSE ScanStringBody(s, k + 1, from)

ScanString(s, k) == ScanStringBody(s, k + 1, k + 1)

\* NUMBER_RE: digits, then an exponent only when a digit follows the "e".
RECURSIVE DigitsEnd(_, _)
DigitsEnd(s, k) == IF k <= Len(s) /\ s[k] \in Digits THEN DigitsEnd(s, k + 1) ELSE k

ScanNumber(s, k) ==
    LET e == DigitsEnd(s, k)
        x == IF e + 1 <= Len(s) /\ s[e] = "e" /\ s[e + 1] \in Digits
             THEN DigitsEnd(s, e + 1) ELSE e
    IN  <<TRUE, <<"number", SubSeq(s, k, x - 1)>>, x>>

\* A dict built from the pairs in order: a repeated key keeps its last value.
ObjectOf(pairs) ==
    LET keys == {pairs[n][1] : n \in 1..Len(pairs)}
        last(key) == CHOOSE n \in 1..Len(pairs) :
                        /\ pairs[n][1] = key
                        /\ \A m \in (n + 1)..Len(pairs) : pairs[m][1] # key
    IN  <<"object", [key \in keys |-> pairs[last(key)][2]]>>

RECURSIVE ScanOnce(_, _)
RECURSIVE ScanArrayItems(_, _, _)
RECURSIVE ScanObjectItems(_, _, _)

\* JSONArray's loop: k is where the next element must start.
ScanArrayItems(s, k, acc) ==
    LET v == ScanOnce(s, k)
    IN  IF ~v[1] THEN Fail
        ELSE LET e == SkipWs(s, v[3])
                 items == Append(acc, v[2])
             IN  IF e > Len(s) THEN Fail
                 ELSE IF s[e] = "]" THEN <<TRUE, <<"array", items>>, e + 1>>
                 ELSE IF s[e] # "," THEN Fail
                 ELSE ScanArrayItems(s, SkipWs(s, e + 1), items)

ScanArray(s, k) ==
    LET e == SkipWs(s, k + 1)
    IN  IF e <= Len(s) /\ s[e] = "]" THEN <<TRUE, <<"array", << >> >>, e + 1>>
        ELSE ScanArrayItems(s, e, << >>)

\* JSONObject's loop: k is where the next key's opening quote must be.
ScanObjectItems(s, k, acc) ==
    IF k > Len(s) \/ s[k] # QUOTE THEN Fail
    ELSE LET key == ScanString(s, k)
         IN  IF ~key[1] THEN Fail
             ELSE LET c == SkipWs(s, key[3])
                  IN  IF c > Len(s) \/ s[c] # ":" THEN Fail
                      ELSE LET v == ScanOnce(s, SkipWs(s, c + 1))
                           IN  IF ~v[1] THEN Fail
                               ELSE LET e == SkipWs(s, v[3])
                                        pairs == Append(acc, <<key[2][2], v[2]>>)
                                    IN  IF e > Len(s) THEN Fail
                                        ELSE IF s[e] = "}" THEN <<TRUE, ObjectOf(pairs), e + 1>>
                                        ELSE IF s[e] # "," THEN Fail
                                        ELSE ScanObjectItems(s, SkipWs(s, e + 1), pairs)

ScanObject(s, k) ==
    LET e == SkipWs(s, k + 1)
    IN  IF e <= Len(s) /\ s[e] = "}" THEN <<TRUE, ObjectOf(<< >>), e + 1>>
        ELSE ScanObjectItems(s, e, << >>)

\* scan_once: the value that starts exactly at k.
ScanOnce(s, k) ==
    IF k > Len(s) THEN Fail
    ELSE IF s[k] = QUOTE THEN ScanString(s, k)
    ELSE IF s[k] = "{" THEN ScanObject(s, k)
    ELSE IF s[k] = "[" THEN ScanArray(s, k)
    ELSE IF s[k] \in Digits THEN ScanNumber(s, k)
    ELSE Fail

\* json.loads: <<TRUE, value>>, or <<FALSE, ...>> for JSONDecodeError
\* (no value, or extra data after it).
JsonLoads(s) ==
    LET v == ScanOnce(s, SkipWs(s, 1))
    IN  IF v[1] /\ SkipWs(s, v[3]) > Len(s) THEN <<TRUE, v[2]>> ELSE <<FALSE, Fail[2]>>


(***************************************************************************)
(* Paths.                                                                  *)
(***************************************************************************)
UPLOAD_FOLDER == <<"u", "p", "l", "o", "a", "d", "s">>
OUTPUT_FOLDER == <<"o", "u", "t", "p", "u", "t">>
FormattedSuffix == <<"_", "f", "o", "r", "m", "a", "t", "t", "e", "d", ".", "p", "d", "f">>
ExtPdf == <<".", "p", "d", "f">>
ExtDocx == <<".", "d", "o", "c", "x">>
ExtDoc == <<".", "d", "o", "c">>

\* The last position of character c in s, 0 when there is none.
LastIndexOf(s, c) ==
    IF \E n \in 1..Len(s) : s[n] = c
    THEN CHOOSE n \in 1..Len(s) : s[n] = c /\ \A m \in (n + 1)..Len(s) : s[m] # c
    ELSE 0

\* os.path.join(folder, filename), for a filename that is not absolute.
PathJoin(folder, filename) == folder \o <<"/">> \o filename

\* os.path.basename
Basename(p) == SubSeq(p, LastIndexOf(p, "/") + 1, Len(p))

\* os.path.splitext: <<root, ext>>; the extension starts at the last dot of
\* the last path component, unless only dots precede it there.
SplitExt(p) ==
    LET sepIndex == LastIndexOf(p, "/")
        dotIndex == LastIndexOf(p, ".")
    IN  IF dotIndex > sepIndex /\ \E n \in (sepIndex + 1)..(dotIndex - 1) : p[n] # "."
        THEN <<SubSeq(p, 1, dotIndex - 1), SubSeq(p, dotIndex, Len(p))>>
        ELSE <<p, << >> >>

\* str.lower() on the characters file names are drawn from.
LowerChar(c) ==
    CASE c = "D" -> "d"
      [] c = "O" -> "o"
      [] c = "C" -> "c"
      [] OTHER -> c

Lower(s) == [n \in 1..Len(s) |-> LowerChar(s[n])]

(***************************************************************************)
(* load_resume: the loader chosen for the path's extension, or ValueError. *)
(***************************************************************************)
\* A loader that takes every other extension for a Word document.
LoaderForAnyExtension(file_path) ==
    IF Lower(SplitExt(file_path)[2]) = ExtPdf THEN "PyPDFLoader" ELSE "Docx2txtLoader"

LoaderFor(file_path) ==
    LET ext == Lower(SplitExt(file_path)[2])
    IN  IF ext = ExtPdf THEN "PyPDFLoader"
        ELSE IF ext \in {ExtDocx, ExtDoc} THEN "Docx2txtLoader"
        ELSE "ValueError"

\* The text a loader extracts from a document.
FullText(loader, doc) == [loader |-> loader, doc |-> doc]

(***************************************************************************)
(* convert_to_json after the chain's call: fence removal, strip, parse,    *)
(* and the fallback object on JSONDecodeError.                             *)
(***************************************************************************)
ErrorKey == <<"e", "r", "r", "o", "r">>
RawKey == <<"r", "a", "w">>
InvalidMsg == <<"I", "n", "v", "a", "l", "i", "d", " ", "J", "S", "O", "N", " ",
                "f", "r", "o", "m", " ", "L", "L", "M">>

Cleaned(response) == Strip(ReSubFences(response))

\* A fallback object whose first key is misspelt.
FallbackOtherKey(response) ==
    ObjectOf(<< <<<<"e", "r", "r">>, <<"string", InvalidMsg>> >>,
                <<RawKey, <<"string", response>> >> >>)

Fallback(response) ==
    ObjectOf(<< <<ErrorKey, <<"string", InvalidMsg>> >>,
                <<RawKey, <<"string", response>> >> >>)

ConvertToJson(response) ==
    LET parsed == JsonLoads(Cleaned(response))
    IN  IF parsed[1] THEN parsed[2] ELSE Fallback(response)

\* A test that knows the fallback object only.
ErrorInFallbackOnly(v) ==
    IF v[1] = "object" /\ DOMAIN v[2] = {ErrorKey, RawKey} THEN "True" ELSE "False"

\* "error" in resume_json: a key of a dict, an element of a list, a substring
\* of a str; TypeError for a number.
ErrorIn(v) ==
    CASE v[1] = "object" -> IF ErrorKey \in DOMAIN v[2] THEN "True" ELSE "False"
      [] v[1] = "array" -> IF \E n \in 1..Len(v[2]) : v[2][n] = <<"string", ErrorKey>>
                           THEN "True" ELSE "False"
      [] v[1] = "string" -> IF IsSubstring(ErrorKey, v[2]) THEN "True" ELSE "False"
      [] OTHER -> "TypeError"

(***************************************************************************)
(* generate_company_resume: where the PDF goes and what it holds.          *)
(***************************************************************************)
PdfPath(filename) ==
    PathJoin(OUTPUT_FOLDER, SplitExt(filename)[1] \o FormattedSuffix)

\* The rendered template.  data is the model's reading of the text `source`;
\* the response text does not say which text it read, so the rendering
\* carries it beside the data.
RenderPdf(name_, contact_, data, source) ==
    [name |-> name_, contact |-> contact_, data |-> data, source |-> source]


(***************************************************************************)
(* Inputs: the file names a request may carry, the form fields, and the    *)
(* responses the model may give.                                           *)
(***************************************************************************)
File_a_pdf == <<"a", ".", "p", "d", "f">>
File_a_DOC == <<"a", ".", "D", "O", "C">>
File_b_txt == <<"b", ".", "t", "x", "t">>
Filenames == {File_a_pdf, File_a_DOC, File_b_txt}

\* request.form.get("name", "Candidate"), request.form.get("contact", ...)
Names == {"Candidate"}
Contacts == {"example@email.com"}

FileLists == UNION {[1..n -> Filenames] : n \in 0..MaxFiles}

\* {"name":"a"}
Doc_record == <<"{", QUOTE, "n", "a", "m", "e", QUOTE, ":", QUOTE, "a", QUOTE, "}">>
\* {"error":"a"}
Doc_error_key == <<"{", QUOTE, "e", "r", "r", "o", "r", QUOTE, ":", QUOTE, "a", QUOTE, "}">>
\* {"name":    (cut short)
Doc_truncated == <<"{", QUOTE, "n", "a", "m", "e", QUOTE, ":">>
\* 1
Doc_number == <<"1">>

Responses == {Doc_record, Doc_error_key, Doc_truncated, Doc_number}

\* The sanitizer's specification draws the response from every text of at
\* most MaxPieces of these pieces.
Pieces == {Fence, <<BT>>, JsonTag, <<"\n">>, <<" ">>, Doc_record, Doc_error_key,
           <<QUOTE>>, <<"1">>, <<"e">>, <<"[">>, <<"]">>, <<",">>}

RECURSIVE Concat(_)
Concat(ps) == IF ps = << >> THEN << >> ELSE Head(ps) \o Concat(Tail(ps))

AllResponses == {Concat(ps) : ps \in UNION {[1..n -> Pieces] : n \in 0..MaxPieces}}

(***************************************************************************)
(* State.  uploads and output are the two directories (path -> content);   *)
(* the rest is one upload_resume call per request r.  calls, made, valid   *)
(* and after record history for the properties: the model calls made, the  *)
(* PDF each pdf_paths entry was rendered as, whether each response parsed, *)
(* and the requests already answered when r arrived.                       *)
(***************************************************************************)
VARIABLES uploads, output, pc, files, name, contact, i, text, response,
          resume_json, pdf_paths, zipf, reply, calls, made, valid, after

vars == <<uploads, output, pc, files, name, contact, i, text, response,
          resume_json, pdf_paths, zipf, reply, calls, made, valid, after>>

locals == <<files, name, contact, i, text, response, resume_json, pdf_paths,
            zipf, reply, calls, made, valid, after>>

NoText == FullText("none", <<0, 0>>)
NoJson == <<"none", << >> >>
NoReply == [status |-> 0, body |-> "none"]

\* The uploaded document that is file idx of request r.
DocOf(r, idx) == <<r, idx>>

\* Every upload saved under one fixed name.
UploadPathFixed(filename) == PathJoin(UPLOAD_FOLDER, File_a_pdf)

\* path = os.path.join(UPLOAD_FOLDER, file.filename)
UploadPath(filename) == PathJoin(UPLOAD_FOLDER, filename)

\* A handler without the check for an empty list.
NoFilesUnchecked(fs) == FALSE

\* if not files
NoFiles(fs) == fs = << >>

\* A loop that stops one file short.
LoopPcShort(fs, idx) == IF idx < Len(fs) THEN "save" ELSE "zip"

\* The for loop's header: the next file, or the zip after the last one.
LoopPc(fs, idx) == IF idx <= Len(fs) THEN "save" ELSE "zip"

\* A write that keeps a file that is already there.
WriteFileIfAbsent(dir, path, content) ==
    IF path \in DOMAIN dir THEN dir ELSE (path :> content) @@ dir

\* open(path, "wb") and write: the file is created or replaced.
WriteFile(dir, path, content) == (path :> content) @@ dir

\* pdf_paths.append(pdf_path)
AppendPath(paths, pdf_path) == Append(paths, pdf_path)

Init ==
    /\ uploads = << >>
    /\ output = << >>
    /\ pc = [r \in Requests |-> "idle"]
    /\ files = [r \in Requests |-> << >>]
    /\ name = [r \in Requests |-> "Candidate"]
    /\ contact = [r \in Requests |-> "example@email.com"]
    /\ i = [r \in Requests |-> 0]
    /\ text = [r \in Requests |-> NoText]
    /\ response = [r \in Requests |-> << >>]
    /\ resume_json = [r \in Requests |-> NoJson]
    /\ pdf_paths = [r \in Requests |-> << >>]
    /\ zipf = [r \in Requests |-> << >>]
    /\ reply = [r \in Requests |-> NoReply]
    /\ calls = [r \in Requests |-> 0]
    /\ made = [r \in Requests |-> << >>]
    /\ valid = [r \in Requests |-> << >>]
    /\ after = [r \in Requests |-> {}]

\* The files the requests of set rs have brought so far.
RECURSIVE Uploaded(_)
Uploaded(rs) ==
    IF rs = {} THEN 0
    ELSE LET r == CHOOSE q \in rs : TRUE
         IN  Len(files[r]) + Uploaded(rs \ {r})

\* A request arrives: its form is read (lines 120-122).
Arrive(r, fs, n, c) ==
    /\ pc[r] = "idle"
    /\ Len(fs) + Uploaded(Requests) <= MaxUploads
    /\ files' = [files EXCEPT ![r] = fs]
    /\ name' = [name EXCEPT ![r] = n]
    /\ contact' = [contact EXCEPT ![r] = c]
    /\ after' = [after EXCEPT ![r] = {q \in Requests : pc[q] = "done"}]

\* No file in the form: 400 and the error body.
UploadNoFiles(r) ==
    \E fs \in FileLists, n \in Names, c \in Contacts :
        /\ Arrive(r, fs, n, c)
        /\ NoFiles(fs)
        /\ reply' = [reply EXCEPT ![r] = [status |-> 400, body |-> "No files uploaded"]]
        /\ pc' = [pc EXCEPT ![r] = "done"]
        /\ UNCHANGED <<uploads, output, i, text, response, resume_json, pdf_paths,
                       zipf, calls, made, valid>>

\* Files in the form: pdf_paths = [] and the loop starts.
UploadBegin(r) ==
    \E fs \in FileLists, n \in Names, c \in Contacts :
        /\ Arrive(r, fs, n, c)
        /\ ~NoFiles(fs)
        /\ i' = [i EXCEPT ![r] = 1]
        /\ pc' = [pc EXCEPT ![r] = LoopPc(fs, 1)]
        /\ UNCHANGED <<uploads, output, text, response, resume_json, pdf_paths,
                       zipf, reply, calls, made, valid>>

\* file.save(path)
Save(r) ==
    /\ pc[r] = "save"
    /\ uploads' = WriteFile(uploads, UploadPath(files[r][i[r]]), DocOf(r, i[r]))
    /\ pc' = [pc EXCEPT ![r] = "load"]
    /\ UNCHANGED <<output>>
    /\ UNCHANGED locals

\* text = load_resume(path), for a supported extension.
LoadResume(r) ==
    LET path == UploadPath(files[r][i[r]])
        loader == LoaderFor(path)
    IN  /\ pc[r] = "load"
        /\ loader # "ValueError"
        /\ text' = [text EXCEPT ![r] = FullText(loader, uploads[path])]
        /\ pc' = [pc EXCEPT ![r] = "invoke"]
        /\ UNCHANGED <<uploads, output, files, name, contact, i, response,
                       resume_json, pdf_paths, zipf, reply, calls, made, valid, after>>

\* load_resume raises ValueError; nothing catches it: a 500 response.
LoadResumeRaise(r) ==
    /\ pc[r] = "load"
    /\ LoaderFor(UploadPath(files[r][i[r]])) = "ValueError"
    /\ reply' = [reply EXCEPT ![r] = [status |-> 500, body |-> "ValueError"]]
    /\ pc' = [pc EXCEPT ![r] = "done"]
    /\ UNCHANGED <<uploads, output, files, name, contact, i, text, response,
                   resume_json, pdf_paths, zipf, calls, made, valid, after>>

\* response = chain.invoke(...): whatever the model answers.
Invoke(r) ==
    /\ pc[r] = "invoke"
    /\ \E resp \in Responses : response' = [response EXCEPT ![r] = resp]
    /\ calls' = [calls EXCEPT ![r] = @ + 1]
    /\ pc' = [pc EXCEPT ![r] = "parse"]
    /\ UNCHANGED <<uploads, output, files, name, contact, i, text, resume_json,
                   pdf_paths, zipf, reply, made, valid, after>>

\* The rest of convert_to_json: clean, parse, fall back.
Sanitize(r) ==
    /\ pc[r] = "parse"
    /\ resume_json' = [resume_json EXCEPT ![r] = ConvertToJson(response[r])]
    /\ valid' = [valid EXCEPT ![r] = Append(@, JsonLoads(Cleaned(response[r]))[1])]
    /\ pc' = [pc EXCEPT ![r] = "check"]
    /\ UNCHANGED <<uploads, output, files, name, contact, i, text, response,
                   pdf_paths, zipf, reply, calls, made, after>>

\* if "error" in resume_json: continue
Skip(r) ==
    /\ pc[r] = "check"
    /\ ErrorIn(resume_json[r]) = "True"
    /\ i' = [i EXCEPT ![r] = @ + 1]
    /\ pc' = [pc EXCEPT ![r] = LoopPc(files[r], i[r] + 1)]
    /\ UNCHANGED <<uploads, output, files, name, contact, text, response,
                   resume_json, pdf_paths, zipf, reply, calls, made, valid, after>>

\* The membership test raises TypeError; nothing catches it: a 500 response.
CheckRaise(r) ==
    /\ pc[r] = "check"
    /\ ErrorIn(resume_json[r]) = "TypeError"
    /\ reply' = [reply EXCEPT ![r] = [status |-> 500, body |-> "TypeError"]]
    /\ pc' = [pc EXCEPT ![r] = "done"]
    /\ UNCHANGED <<uploads, output, files, name, contact, i, text, response,
                   resume_json, pdf_paths, zipf, calls, made, valid, after>>

\* pdf_path = generate_company_resume(...); pdf_paths.append(pdf_path)
Generate(r) ==
    LET pdf_path == PdfPath(files[r][i[r]])
        pdf == RenderPdf(name[r], contact[r], resume_json[r], text[r])
    IN  /\ pc[r] = "check"
        /\ ErrorIn(resume_json[r]) = "False"
        /\ output' = WriteFile(output, pdf_path, pdf)
        /\ pdf_paths' = [pdf_paths EXCEPT ![r] = AppendPath(@, pdf_path)]
        /\ made' = [made EXCEPT ![r] = Append(@, [idx |-> i[r], pdf |-> pdf])]
        /\ i' = [i EXCEPT ![r] = @ + 1]
        /\ pc' = [pc EXCEPT ![r] = LoopPc(files[r], i[r] + 1)]
        /\ UNCHANGED <<uploads, files, name, contact, text, response, resume_json,
                       zipf, reply, calls, valid, after>>

\* zipf.write(pdf, os.path.basename(pdf)), for the next of pdf_paths.
ZipWrite(r) ==
    /\ pc[r] = "zip"
    /\ Len(zipf[r]) < Len(pdf_paths[r])
    /\ LET pdf == pdf_paths[r][Len(zipf[r]) + 1]
       IN  zipf' = [zipf EXCEPT ![r] =
                       Append(@, [name |-> Basename(pdf), data |-> output[pdf]])]
    /\ UNCHANGED <<uploads, output, pc, files, name, contact, i, text, response,
                   resume_json, pdf_paths, reply, calls, made, valid, after>>

\* send_file(zip_buffer, download_name="Formatted_Resumes.zip")
SendFile(r) ==
    /\ pc[r] = "zip"
    /\ Len(zipf[r]) = Len(pdf_paths[r])
    /\ reply' = [reply EXCEPT ![r] = [status |-> 200, body |-> "Formatted_Resumes.zip"]]
    /\ pc' = [pc EXCEPT ![r] = "done"]
    /\ UNCHANGED <<uploads, output, files, name, contact, i, text, response,
                   resume_json, pdf_paths, zipf, calls, made, valid, after>>

Next ==
    \E r \in Requests :
        \/ UploadNoFiles(r)
        \/ UploadBegin(r)
        \/ Save(r)
        \/ LoadResume(r)
        \/ LoadResumeRaise(r)
        \/ Invoke(r)
        \/ Sanitize(r)
        \/ Skip(r)
        \/ CheckRaise(r)
        \/ Generate(r)
        \/ ZipWrite(r)
        \/ SendFile(r)

Spec == Init /\ [][Next]_vars

(***************************************************************************)
(* The sanitizer on its own: request 1 has uploaded a.pdf and is inside    *)
(* convert_to_json, the model having answered any text of AllResponses.    *)
(***************************************************************************)
InitConv ==
    /\ uploads = (UploadPath(File_a_pdf) :> DocOf(1, 1))
    /\ output = << >>
    /\ pc = [r \in Requests |-> IF r = 1 THEN "parse" ELSE "idle"]
    /\ files = [r \in Requests |-> IF r = 1 THEN <<File_a_pdf>> ELSE << >>]
    /\ name = [r \in Requests |-> "Candidate"]
    /\ contact = [r \in Requests |-> "example@email.com"]
    /\ i = [r \in Requests |-> IF r = 1 THEN 1 ELSE 0]
    /\ text = [r \in Requests |->
                 IF r = 1 THEN FullText("PyPDFLoader", DocOf(1, 1)) ELSE NoText]
    /\ \E resp \in AllResponses :
          response = [r \in Requests |-> IF r = 1 THEN resp ELSE << >>]
    /\ resume_json = [r \in Requests |-> NoJson]
    /\ pdf_paths = [r \in Requests |-> << >>]
    /\ zipf = [r \in Requests |-> << >>]
    /\ reply = [r \in Requests |-> NoReply]
    /\ calls = [r \in Requests |-> IF r = 1 THEN 1 ELSE 0]
    /\ made = [r \in Requests |-> << >>]
    /\ valid = [r \in Requests |-> << >>]
    /\ after = [r \in Requests |-> {}]

NextConv == \E r \in Requests : Sanitize(r)

SpecConv == InitConv /\ [][NextConv]_vars


(***************************************************************************)
(* What the specification expects of the file names above, written out     *)
(* rather than computed: the name without its last extension, and whether  *)
(* the extension is one of .pdf, .docx, .doc in any letter case.           *)
(***************************************************************************)
ExpectedStem ==
    (File_a_pdf :> <<"a">>) @@ (File_a_DOC :> <<"a">>) @@ (File_b_txt :> <<"b">>)

ExpectedSupported ==
    (File_a_pdf :> TRUE) @@ (File_a_DOC :> TRUE) @@ (File_b_txt :> FALSE)

ExpectedEntryName(filename) ==
    ExpectedStem[filename] \o
        <<"_", "f", "o", "r", "m", "a", "t", "t", "e", "d", ".", "p", "d", "f">>

\* The entries of r's zip named n.
EntriesNamed(r, n) == {k \in 1..Len(zipf[r]) : zipf[r][k].name = n}

Answered(r, status) == pc[r] = "done" /\ reply[r].status = status

(***************************************************************************)
(* C1.  In a request answered with the zip, every file with a supported    *)
(* extension whose model response parsed as JSON has exactly one zip entry *)
(* named <stem>_formatted.pdf.                                             *)
(***************************************************************************)
C1_OneEntryPerParsedFile ==
    \A r \in Requests :
        Answered(r, 200) =>
            \A k \in 1..Len(files[r]) :
                (ExpectedSupported[files[r][k]] /\ valid[r][k]) =>
                    Cardinality(EntriesNamed(r, ExpectedEntryName(files[r][k]))) = 1

(***************************************************************************)
(* C3.  A request with an empty file list is answered at once with 400 and *)
(* "No files uploaded": the step that takes it leaves uploads/ and output/ *)
(* as they were, and the request never saves a file, calls the model,      *)
(* renders a PDF or writes a zip entry.                                    *)
(***************************************************************************)
C3_EmptyListRejected ==
    /\ [](\A r \in Requests :
            (pc[r] # "idle" /\ files[r] = << >>) =>
                /\ pc[r] = "done"
                /\ reply[r] = [status |-> 400, body |-> "No files uploaded"]
                /\ calls[r] = 0
                /\ pdf_paths[r] = << >>
                /\ made[r] = << >>
                /\ zipf[r] = << >>)
    /\ [][\A r \in Requests :
            (pc[r] = "idle" /\ pc'[r] # "idle" /\ files'[r] = << >>) =>
                (uploads' = uploads /\ output' = output)]_vars

\* A request with no file, answered 400.
C3_Witness ==
    \E r \in Requests :
        /\ files[r] = << >>
        /\ Answered(r, 400)
        /\ reply[r].body = "No files uploaded"

(***************************************************************************)
(* C4.  A file whose extension is none of .pdf, .docx, .doc (in any letter *)
(* case) makes load_resume raise: the request is answered 500 by that      *)
(* step, without a model call or a PDF for the file, and never sends a     *)
(* zip.                                                                    *)
(***************************************************************************)
C4_UnsupportedRaises ==
    /\ [](\A r \in Requests :
            /\ pc[r] \in {"invoke", "parse", "check"} =>
                   ExpectedSupported[files[r][i[r]]]
            /\ \A n \in 1..Len(made[r]) : ExpectedSupported[files[r][made[r][n].idx]]
            /\ (/\ pc[r] = "done"
                /\ \E k \in 1..Len(files[r]) :
                      k <= i[r] /\ ~ExpectedSupported[files[r][k]]) =>
                   reply[r] = [status |-> 500, body |-> "ValueError"])
    /\ [][\A r \in Requests :
            (/\ pc[r] = "load"
             /\ pc'[r] # "load"
             /\ ~ExpectedSupported[files[r][i[r]]]) =>
                /\ pc'[r] = "done"
                /\ reply'[r] = [status |-> 500, body |-> "ValueError"]
                /\ calls'[r] = calls[r]
                /\ output' = output
                /\ pdf_paths'[r] = pdf_paths[r]
                /\ zipf'[r] = << >>]_vars

\* A request that rendered its first file and was answered 500 on b.txt, its second.
C4_Witness ==
    \E r \in Requests :
        /\ Answered(r, 500)
        /\ reply[r].body = "ValueError"
        /\ i[r] = 2
        /\ files[r][2] = File_b_txt
        /\ Len(made[r]) = 1
        /\ calls[r] = 1


(***************************************************************************)
(* C2.  As claimed: a request with a file whose response did not parse     *)
(* renders no PDF for that file and is still answered with the zip.        *)
(***************************************************************************)
C2_SkippedAndStillZipped ==
    \A r \in Requests :
        (pc[r] = "done" /\ \E k \in 1..Len(valid[r]) : ~valid[r][k]) =>
            /\ \A n \in 1..Len(made[r]) : valid[r][made[r][n].idx]
            /\ reply[r].status = 200

(***************************************************************************)
(* C2, amended.  A file whose response did not parse is skipped: the step  *)
(* after the parse renders nothing, leaves output/ and pdf_paths alone,    *)
(* answers nothing, and goes to the next file, or to the zip after the     *)
(* last file; no PDF and no zip entry of the request belongs to such a     *)
(* file; and an error answer is never on account of such a file.           *)
(***************************************************************************)
C2_ParseFailureSkipped ==
    /\ [](\A r \in Requests :
            /\ \A n \in 1..Len(made[r]) : valid[r][made[r][n].idx]
            /\ Len(zipf[r]) <= Len(made[r])
            /\ Answered(r, 500) => (Len(valid[r]) < i[r] \/ valid[r][i[r]]))
    /\ [][\A r \in Requests :
            (/\ pc[r] = "check"
             /\ ~valid[r][i[r]]
             /\ <<pc[r], i[r]>> # <<pc'[r], i'[r]>>) =>
                /\ i'[r] = i[r] + 1
                /\ pc'[r] = IF i[r] < Len(files[r]) THEN "save" ELSE "zip"
                /\ output' = output
                /\ pdf_paths'[r] = pdf_paths[r]
                /\ made'[r] = made[r]
                /\ reply'[r] = reply[r]]_vars

\* A request answered with the zip whose first file was skipped for its unparsable response and whose second was rendered.
C2_Witness ==
    \E r \in Requests :
        /\ Answered(r, 200)
        /\ valid[r] = <<FALSE, TRUE>>
        /\ Len(made[r]) = 1
        /\ made[r][1].idx = 2
        /\ Len(zipf[r]) = 1


\* Where the specification expects the PDF of a file name: output/<stem>_formatted.pdf
ExpectedPdfPath(filename) ==
    <<"o", "u", "t", "p", "u", "t", "/">> \o ExpectedEntryName(filename)

\* The file names request r has rendered, and its latest rendering of one.
Rendered(r) == {files[r][made[r][n].idx] : n \in 1..Len(made[r])}

LastRendering(r, path) ==
    LET ns == {n \in 1..Len(made[r]) : ExpectedPdfPath(files[r][made[r][n].idx]) = path}
        last == CHOOSE n \in ns : \A m \in ns : m <= n
    IN  made[r][last].pdf

\* q arrived after p was answered, and no third request has run beside q.
Sequential(p, q) ==
    /\ p # q
    /\ p \in after[q]
    /\ \A o \in Requests \ {p, q} : pc[o] = "idle" \/ o \in after[q]

(***************************************************************************)
(* C5.  In a request answered with the zip (here one that ran while no     *)
(* other request did), the entries are one to one with the rendered files: *)
(* as many entries as renderings, no name twice, each entry holding the    *)
(* PDF rendered from its own file's record.                                *)
(***************************************************************************)
C5_OnePdfPerRenderedFile ==
    \A r \in Requests :
        (Answered(r, 200) /\ \A q \in Requests \ {r} : pc[q] = "idle") =>
            /\ Len(zipf[r]) = Len(made[r])
            /\ \A m, n \in 1..Len(zipf[r]) : m # n => zipf[r][m].name # zipf[r][n].name
            /\ \A n \in 1..Len(zipf[r]) : zipf[r][n].data = made[r][n].pdf

Overlapped(p, q) == p # q /\ pc[p] # "idle" /\ pc[q] # "idle" /\ p \notin after[q] /\ q \notin after[p]

\* The request whose upload a PDF was built from.
BuiltFrom(pdf) == pdf.source.doc[1]

(***************************************************************************)
(* C7.  The race: a zip entry of one request can hold a PDF built from     *)
(* another request's uploaded document (the witness).  It happens only     *)
(* between requests that ran side by side, and only through a file name    *)
(* with the same stem: the other request's document was uploaded under a   *)
(* name whose PDF path is that of the entry's own file.                    *)
(***************************************************************************)
C7_RaceOnSharedName ==
    \A r \in Requests : \A n \in 1..Len(zipf[r]) :
        LET q == BuiltFrom(zipf[r][n].data)
            k == zipf[r][n].data.source.doc[2]
        IN  q # r =>
                /\ Overlapped(q, r)
                /\ k \in 1..Len(files[q])
                /\ ExpectedPdfPath(files[q][k]) =
                       ExpectedPdfPath(files[r][made[r][n].idx])

\* A request that rendered a.pdf and whose zip holds a PDF built from the other request's upload.
C7_Witness ==
    \E r, q \in Requests :
        /\ r # q
        /\ Answered(r, 200)
        /\ File_a_pdf \in Rendered(r)
        /\ \E n \in 1..Len(zipf[r]) : BuiltFrom(zipf[r][n].data) = q

\* The moves one step may make request r do: a stage, then the stage after it.
C8_StageOrder(r) ==
    LET here == <<pc[r], i[r]>>
        there == <<pc'[r], i'[r]>>
    IN  here # there =>
            \/ pc[r] = "idle" /\ there \in {<<"save", 1>>, <<"done", 0>>}
            \/ pc[r] = "save" /\ there = <<"load", i[r]>>
            \/ pc[r] = "load" /\ there \in {<<"invoke", i[r]>>, <<"done", i[r]>>}
            \/ pc[r] = "invoke" /\ there = <<"parse", i[r]>> /\ calls'[r] = calls[r] + 1
            \/ pc[r] = "parse" /\ there = <<"check", i[r]>>
            \/ /\ pc[r] = "check"
               /\ there \in {<<"save", i[r] + 1>>, <<"zip", i[r] + 1>>, <<"done", i[r]>>}
            \/ pc[r] = "zip" /\ there = <<"done", i[r]>>

(***************************************************************************)
(* C8.  One request handles its files one after another in upload order:   *)
(* each step moves the request along save, load, model call, parse,        *)
(* render-or-skip for the same file, then to the next file; the model is   *)
(* called once per file that reaches it; the zip starts only after the     *)
(* last file, and its entries follow upload order.                         *)
(***************************************************************************)
C8_SequentialInUploadOrder ==
    /\ [](\A r \in Requests :
            /\ pc[r] \in {"save", "load", "invoke", "parse", "check"} =>
                   i[r] \in 1..Len(files[r])
            /\ pc[r] = "zip" => i[r] = Len(files[r]) + 1
            /\ zipf[r] # << >> => (pc[r] \in {"zip", "done"} /\ i[r] = Len(files[r]) + 1)
            /\ calls[r] = CASE pc[r] = "idle" -> 0
                             [] pc[r] \in {"save", "load", "invoke"} -> i[r] - 1
                             [] pc[r] \in {"parse", "check"} -> i[r]
                             [] OTHER -> Len(valid[r])
            /\ Len(valid[r]) <= Len(files[r])
            /\ Len(pdf_paths[r]) = Len(made[r])
            /\ \A n \in 1..Len(made[r]) :
                   /\ made[r][n].idx \in 1..Len(files[r])
                   /\ pdf_paths[r][n] = ExpectedPdfPath(files[r][made[r][n].idx])
                   /\ n > 1 => made[r][n - 1].idx < made[r][n].idx
            /\ Len(zipf[r]) <= Len(made[r])
            /\ \A n \in 1..Len(zipf[r]) :
                   zipf[r][n].name = ExpectedEntryName(files[r][made[r][n].idx]))
    /\ [][\A r \in Requests :
            /\ C8_StageOrder(r)
            /\ calls'[r] # calls[r] => pc[r] = "invoke"
            /\ zipf'[r] # zipf[r] => pc[r] = "zip"]_vars

\* A request of two files, both sent to the model once, rendered and zipped in upload order.
C8_Witness ==
    \E r \in Requests :
        /\ Answered(r, 200)
        /\ Len(files[r]) = 2
        /\ calls[r] = 2
        /\ Len(zipf[r]) = 2
        /\ made[r][1].idx = 1
        /\ made[r][2].idx = 2


(***************************************************************************)
(* The sanitizer as the specification words it: fences are deleted, the    *)
(* leftmost first (with the json that follows it), until none is left;     *)
(* then the text between the first and the last non-blank character is     *)
(* parsed.                                                                 *)
(***************************************************************************)
RECURSIVE WithoutFences(_)
WithoutFences(s) ==
    IF ~IsSubstring(Fence, s) THEN s
    ELSE LET k == CHOOSE n \in 1..Len(s) :
                      /\ StartsWithAt(s, Fence, n)
                      /\ \A m \in 1..(n - 1) : ~StartsWithAt(s, Fence, m)
             len == IF StartsWithAt(s, JsonTag, k + 3) THEN 7 ELSE 3
         IN  WithoutFences(SubSeq(s, 1, k - 1) \o SubSeq(s, k + len, Len(s)))

Trimmed(s) ==
    LET solid == {n \in 1..Len(s) : s[n] \notin WS}
    IN  IF solid = {} THEN << >>
        ELSE SubSeq(s, CHOOSE n \in solid : \A m \in solid : n <= m,
                       CHOOSE n \in solid : \A m \in solid : m <= n)

\* A document inside a code fence, with or without the json tag and the
\* line breaks.
Wrappings(d) ==
    {Fence \o d \o Fence,
     Fence \o JsonTag \o d \o Fence,
     Fence \o <<"\n">> \o d \o <<"\n">> \o Fence,
     Fence \o JsonTag \o <<"\n">> \o d \o <<"\n">> \o Fence}

(***************************************************************************)
(* C9.  convert_to_json returns the value of the response with every fence *)
(* removed and the ends trimmed; when that text does not parse, the object *)
(* with exactly the keys "error" ("Invalid JSON from LLM") and "raw" (the  *)
(* response as the model gave it).  No fence is left in the text parsed,   *)
(* and a document that parses bare gives the same value inside a fence.    *)
(***************************************************************************)
C9_Sanitizer ==
    \A r \in Requests :
        pc[r] = "check" =>
            LET raw == response[r]
                cleaned == Trimmed(WithoutFences(raw))
                parsed == JsonLoads(cleaned)
            IN  /\ ~IsSubstring(Fence, cleaned)
                /\ IF parsed[1]
                   THEN resume_json[r] = parsed[2]
                   ELSE /\ resume_json[r][1] = "object"
                        /\ DOMAIN resume_json[r][2] = {ErrorKey, RawKey}
                        /\ resume_json[r][2][ErrorKey] = <<"string", InvalidMsg>>
                        /\ resume_json[r][2][RawKey] = <<"string", raw>>
                /\ JsonLoads(raw)[1] =>
                       \A w \in Wrappings(raw) : ConvertToJson(w) = resume_json[r]
                /\ (JsonLoads(raw)[1] /\ ~IsSubstring(Fence, raw)) =>
                       resume_json[r] = JsonLoads(raw)[2]

\* A fenced record: parsed to the record's value.
C9_Witness ==
    \E r \in Requests :
        /\ pc[r] = "check"
        /\ response[r] = Fence \o JsonTag \o Doc_record
        /\ resume_json[r] = JsonLoads(Doc_record)[2]
        /\ resume_json[r][2][<<"n", "a", "m", "e">>] = <<"string", <<"a">> >>

\* A value that has "error" in it: as a key, as an element, or as a substring.
HasError(v) ==
    \/ v[1] = "object" /\ ErrorKey \in DOMAIN v[2]
    \/ v[1] = "array" /\ \E n \in 1..Len(v[2]) : v[2][n] = <<"string", ErrorKey>>
    \/ v[1] = "string" /\ IsSubstring(ErrorKey, v[2])

=============================================================================
